---------------------------- MODULE Spec2Model ----------------------------
(***************************************************************************)
(* Model of src/src/response.ts: the Response accumulator of the browser   *)
(* automation server, its auxiliary file writer, the tab-snapshot and tab  *)
(* list renderers, serialize(), and the browser_network_requests tool      *)
(* with its request renderer.  Strings are TLA+ strings; every             *)
(* promise the code awaits is a separate step, so that other Responses of  *)
(* the same process, the clock and the page can move in between.           *)
(***************************************************************************)
EXTENDS Integers, Sequences, FiniteSets, TLC

(***************************************************************************)
(* Bounds of the model.                                                    *)
(***************************************************************************)
NumResponses == 2     \* Responses alive in the process under SpecConc
MaxAdds == 2          \* add* calls on one Response
MaxFinish == 2        \* finish() calls on one Response
MaxSerialize == 2     \* serialize() calls on one Response
MaxTabs == 2          \* tabs in the context's registry
MaxClock == 1         \* milliseconds that pass while the model runs
MaxMessages == 7      \* console messages a page has logged, under SpecRender

Responses == 1..NumResponses

(***************************************************************************)
(* String helpers: the JavaScript string and path functions the code uses. *)
(***************************************************************************)
RECURSIVE Rep(_, _)
Rep(c, n) ==
    IF n = 0 THEN ""
    ELSE IF n % 2 = 0 THEN LET h == Rep(c, n \div 2) IN h \o h
    ELSE c \o Rep(c, n - 1)

\* Array.prototype.join
RECURSIVE Join(_, _)
Join(lines, sep) ==
    IF Len(lines) = 0 THEN ""
    ELSE IF Len(lines) = 1 THEN lines[1]
    ELSE lines[1] \o sep \o Join(Tail(lines), sep)

\* String.prototype.startsWith / includes, used to read the serialized text
StartsWith(s, p) == Len(s) >= Len(p) /\ SubSeq(s, 1, Len(p)) = p

Contains(s, p) ==
    \E i \in 1..(Len(s) - Len(p) + 1) : SubSeq(s, i, i + Len(p) - 1) = p

CharAt(s, i) == SubSeq(s, i, i)

\* path.basename: what follows the last separator
RECURSIVE LastSlash(_, _)
LastSlash(p, i) ==
    IF i = 0 THEN 0
    ELSE IF CharAt(p, i) = "/" THEN i
    ELSE LastSlash(p, i - 1)

basename(p) == SubSeq(p, LastSlash(p, Len(p)) + 1, Len(p))

\* String.prototype.replace(/[:.]/g, '-')
RECURSIVE ReplaceColonDot(_)
ReplaceColonDot(s) ==
    IF Len(s) = 0 THEN ""
    ELSE (IF CharAt(s, 1) \in {":", "."} THEN "-" ELSE CharAt(s, 1))
         \o ReplaceColonDot(SubSeq(s, 2, Len(s)))

Pad2(n) == IF n < 10 THEN "0" \o ToString(n) ELSE ToString(n)

Pad3(n) == IF n < 10 THEN "00" \o ToString(n)
           ELSE IF n < 100 THEN "0" \o ToString(n)
           ELSE ToString(n)

\* Date.prototype.toISOString of a clock value in milliseconds since the
\* epoch (the first hour of it: the clock of the model stays far below)
toISOString(t) ==
    "1970-01-01T00:" \o Pad2((t \div 60000) % 60) \o ":"
        \o Pad2((t \div 1000) % 60) \o "." \o Pad3(t % 1000) \o "Z"

trimMut(text, maxLength) ==
    IF Len(text) <= maxLength THEN text
    ELSE SubSeq(text, 1, maxLength)

trim(text, maxLength) ==
    IF Len(text) <= maxLength THEN text
    ELSE SubSeq(text, 1, maxLength) \o "..."

\* Buffer.prototype.toString('base64') of a sequence of bytes
Base64Alphabet ==
    "ABCDEFGHIJKLMNOPQRSTUVWXYZabcdefghijklmnopqrstuvwxyz0123456789+/"

B64(i) == CharAt(Base64Alphabet, i + 1)

RECURSIVE Base64(_)
Base64(b) ==
    IF Len(b) = 0 THEN ""
    ELSE IF Len(b) = 1 THEN
        B64(b[1] \div 4) \o B64((b[1] % 4) * 16) \o "=="
    ELSE IF Len(b) = 2 THEN
        B64(b[1] \div 4) \o B64((b[1] % 4) * 16 + b[2] \div 16)
            \o B64((b[2] % 16) * 4) \o "="
    ELSE
        B64(b[1] \div 4) \o B64((b[1] % 4) * 16 + b[2] \div 16)
            \o B64((b[2] % 16) * 4 + b[3] \div 64) \o B64(b[3] % 64)
            \o Base64(SubSeq(b, 4, Len(b)))


(***************************************************************************)
(* The pages of the model.  Tab i of the registry shows Page(i): the odd   *)
(* ones have logged seven console messages (the second is exactly 100      *)
(* characters long as a string, the third 101) and started two downloads,  *)
(* the even ones have logged nothing.                                      *)
(***************************************************************************)
ConsoleLog ==
    << [type |-> "LOG", text |-> "first"],
       [type |-> "LOG", text |-> Rep("c", 94)],
       [type |-> "LOG", text |-> Rep("d", 95)],
       [type |-> "ERROR", text |-> "fourth"],
       [type |-> "LOG", text |-> "fifth"],
       [type |-> "LOG", text |-> "sixth"],
       [type |-> "LOG", text |-> "seventh"] >>

Downloads ==
    << [suggestedFilename |-> "a.pdf", outputFile |-> "/out/a.pdf", finished |-> TRUE],
       [suggestedFilename |-> "b.zip", outputFile |-> "/out/b.zip", finished |-> FALSE] >>

Dialog == [type |-> "dialog", description |-> "\"alert\" dialog with message \"hi\""]

Page(i) ==
    [url |-> "https://site.test/" \o ToString(i),
     title |-> "Title " \o ToString(i),
     lastTitle |-> "about:blank",
     ariaSnapshot |-> "- heading \"Page " \o ToString(i) \o "\"",
     modalStates |-> << >>,
     consoleMessages |-> IF i % 2 = 1 THEN ConsoleLog ELSE << >>,
     downloads |-> IF i % 2 = 1 THEN Downloads ELSE << >>]

\* a page that has logged n console messages: the first n of ConsoleLog,
\* and short ones after those
LoggedPage(n) ==
    [Page(1) EXCEPT !.consoleMessages =
        [i \in 1..n |->
            IF i <= Len(ConsoleLog) THEN ConsoleLog[i]
            ELSE [type |-> "LOG", text |-> "message " \o ToString(i)]]]

\* The request/response pairs a tab has recorded.  A request is described
\* by what renderRequest reads of it; postData "" stands for null, and a
\* response that has not arrived is None.
Returned == "returned"

Threw == "threw"

PostDatas ==
    { [outcome |-> Returned, text |-> "{\"query\":\"{ me }\"}"],
      [outcome |-> Returned, text |-> ""],
      [outcome |-> Threw, text |-> ""] }

RequestShapes ==
    { [method |-> IF p.text = "" THEN "GET" ELSE "post",
       url |-> u, contentType |-> c, postData |-> p] :
        u \in {"https://api.test/graphql", "https://site.test/page"},
        c \in {"", "application/json"},
        p \in PostDatas }

BodyTexts ==
    { "{\"data\":{\"id\":1,\"tags\":[\"a\",\"b\"]}}",
      "{\"errors\":[]}",
      "<html>oops</html>",
      Rep("r", 1001) }

\* response.body() fails from some call on, or never
BodyReads == { <<Returned, Returned>>, <<Returned, Threw>>, <<Threw, Threw>> }

ResponseShapes ==
    [status : {200}, statusText : {"OK"},
     contentType : {"", "application/json; charset=utf-8", "text/html"},
     body : [reads : BodyReads, text : BodyTexts]]

Pairs ==
    {[request |-> q, response |-> [none |-> TRUE]] : q \in RequestShapes}
        \cup [request : RequestShapes, response : ResponseShapes]

PendingPairs == {[request |-> q, response |-> [none |-> TRUE]] : q \in RequestShapes}

\* what Tab.requests() may hold when the tool runs
RequestLists ==
    {<< >>} \cup {<<p>> : p \in Pairs} \cup {<<p, q>> : p, q \in PendingPairs}

ToolNames == {"browser_console_messages", "browser_network_requests"}

\* The texts tools pass to addResult / addError / addCode
ResultTexts == {"done"}
ErrorTexts == {"Error: boom"}
CodeTexts == {"await page.goto('https://site.test/1');"}

\* The detailed texts passed to addResultWithFileOption: 500 and 501 long
DetailCalls ==
    { [text |-> Rep("x", 500), type |-> "console"],
      [text |-> Rep("y", 501), type |-> "console"],
      [text |-> Rep("z", 501), type |-> "network"] }

Images ==
    { [contentType |-> "image/png", data |-> <<137, 80, 78, 71>>],
      [contentType |-> "image/jpeg", data |-> <<255, 216>>] }

None == [none |-> TRUE]

VARIABLES
    config,             \* Context.config: outputToFiles, imageResponses, outputDir
    tabs,               \* Context.tabs(): the registry, in insertion order
    requests,           \* Tab.requests() of the current tab: request/response pairs
    currentTab,         \* index of Context.currentTab() in tabs, 0 when absent
    now,                \* the clock as new Date() last read it, in milliseconds
    fs,                 \* the output directory: path -> content
    live,               \* the Responses of the process
    toolName,           \* Response.toolName
    _result,            \* Response._result
    _code,              \* Response._code
    _images,            \* Response._images
    _includeSnapshot,   \* Response._includeSnapshot
    _includeTabs,       \* Response._includeTabs
    _tabSnapshot,       \* Response._tabSnapshot, None when undefined
    _outputFiles,       \* Response._outputFiles
    _isError,           \* Response._isError: "undefined" or "true"
    pc,                 \* where each Response's caller is suspended
    frame,              \* the locals of the suspended call
    out,                \* what the last serialize() of each Response returned
    last,               \* the last call each Response completed
    calls,              \* calls started on each Response, by kind
    writes,             \* history: every completed fs.writeFile, in order
    captures,           \* history: captureSnapshot calls each Response made
    added,              \* history: lines passed to addResult/addError, in call order
    errorCalls,         \* history: addError calls on each Response
    routing,            \* history: file-routing decisions taken in the process
    titleUpdates        \* history: updateTitle calls each finish() made, in order

vars ==
    << config, requests, tabs, currentTab, now, fs, live, toolName, _result, _code,
       _images, _includeSnapshot, _includeTabs, _tabSnapshot, _outputFiles,
       _isError, pc, frame, out, last, calls, writes, captures, added,
       errorCalls, routing, titleUpdates >>

(***************************************************************************)
(* Collaborators of response.ts that live in other files of the            *)
(* repository (tab.ts, config.ts).                                         *)
(***************************************************************************)
\* ConsoleMessage.toString()
messageToString(m) == "[" \o m.type \o "] " \o m.text

\* outputFile(config, undefined, filename): a path inside the output directory
outputFile(cfg, filename) == cfg.outputDir \o "/" \o filename

\* renderModalStates(context, modalStates)
renderModalStates(modalStates) ==
    <<"### Modal state">>
    \o (IF Len(modalStates) = 0
        THEN <<"- There is no modal state present">>
        ELSE [i \in 1..Len(modalStates) |->
                "- [" \o modalStates[i].description \o "]: can be handled by the \"browser_handle_dialog\" tool"])

\* Tab.captureSnapshot(): the page as it is now, and the console messages
\* and downloads accumulated since the previous capture
captureSnapshot(tab) ==
    [url |-> tab.url,
     title |-> tab.title,
     ariaSnapshot |-> tab.ariaSnapshot,
     modalStates |-> tab.modalStates,
     consoleMessages |-> tab.consoleMessages,
     downloads |-> tab.downloads]

\* what captureSnapshot leaves of the tab: the accumulated messages and
\* downloads are handed over
afterCapture(tab) == [tab EXCEPT !.consoleMessages = << >>, !.downloads = << >>]

\* Tab.updateTitle(): caches the page's title
updateTitle(tab) == [tab EXCEPT !.lastTitle = tab.title]

(***************************************************************************)
(* The pure parts of response.ts.                                          *)
(***************************************************************************)
\* Response.addResult, as a function of _result
addResultMutPrepend(res, result) == <<result>> \o res

addResult(res, result) == Append(res, result)

\* Response.addError, as a function of (_result, _isError); the flag is
\* "undefined" until it is set to "true"
addErrorMutNoFlag(res, flag, error) == [result |-> Append(res, error), isError |-> flag]

addError(res, flag, error) == [result |-> Append(res, error), isError |-> "true"]

\* Response.isError()
isError(r) == _isError[r]

\* Response.result() and Response.code()
result(r) == Join(_result[r], "\n")

code(r) == Join(_code[r], "\n")

\* the test of addResultWithFileOption
ShouldWriteFileMutGeq(cfg, text) == cfg.outputToFiles /\ Len(text) >= 500

ShouldWriteFileMutNoFlag(cfg, text) == Len(text) > 500

ShouldWriteFile(cfg, text) == cfg.outputToFiles /\ Len(text) > 500

UsageHint == "Use: head/grep/tail/cat"

\* the code fence of the rendered markdown: three backquotes in the source,
\* written with tildes here because a TLA+ string cannot hold a backquote
Fence == "~~~"

\* the two lines addResultWithFileOption adds for a written file
FilePointerMutFullPath(type, filepath) == << type \o ": " \o filepath, UsageHint >>

FilePointer(type, filepath) == << type \o ": " \o basename(filepath), UsageHint >>

\* the three entries serialize() pushes for a written snapshot file
SnapshotPointer(label, filepath) ==
    << label \o ": " \o basename(filepath), UsageHint, "" >>

\* the filename _writeDetailedOutputToFile derives from the clock
Timestamp(t) == ReplaceColonDot(toISOString(t))

Filename(tool, t) == tool \o "-" \o Timestamp(t) \o ".txt"

_shouldIncludeSnapshotMutTabsOnly(r) ==
    IF config.outputToFiles
    THEN _tabSnapshot[r] # None
    ELSE _includeTabs[r]

\* Response._shouldIncludeSnapshot
_shouldIncludeSnapshot(r) ==
    IF config.outputToFiles
    THEN _tabSnapshot[r] # None
    ELSE _includeSnapshot[r] \/ _includeTabs[r]

\* renderTabSnapshot: the console section
ConsoleSection(tabSnapshot, cfg) ==
    LET n == Len(tabSnapshot.consoleMessages) IN
    IF n = 0 THEN << >>
    ELSE (IF cfg.outputToFiles
          THEN << "### Console messages (" \o ToString(n) \o " total)",
                  "- " \o ToString(n) \o " console messages captured" >>
          ELSE <<"### New console messages">>
               \o [i \in 1..(IF n < 5 THEN n ELSE 5) |->
                     "- " \o trim(messageToString(tabSnapshot.consoleMessages[i]), 100)]
               \o (IF n > 5
                   THEN <<"- ... and " \o ToString(n - 5) \o " more console messages">>
                   ELSE << >>))
         \o <<"">>

\* renderTabSnapshot: the downloads section
DownloadsSection(tabSnapshot) ==
    LET n == Len(tabSnapshot.downloads) IN
    IF n = 0 THEN << >>
    ELSE <<"### Downloads">>
         \o [i \in 1..n |->
               LET entry == tabSnapshot.downloads[i] IN
               IF entry.finished
               THEN "- Downloaded file " \o entry.suggestedFilename \o " to " \o entry.outputFile
               ELSE "- Downloading file " \o entry.suggestedFilename \o " ..."]
         \o <<"">>

\* renderTabSnapshot: the page state
PageStateSection(tabSnapshot) ==
    << "### Page state",
       "- Page URL: " \o tabSnapshot.url,
       "- Page Title: " \o tabSnapshot.title,
       "- Page Snapshot:",
       Fence \o "yaml",
       tabSnapshot.ariaSnapshot,
       Fence >>

renderTabSnapshot(tabSnapshot, cfg) ==
    Join(ConsoleSection(tabSnapshot, cfg) \o DownloadsSection(tabSnapshot)
            \o PageStateSection(tabSnapshot), "\n")

renderTabsMarkdownMutNoForce(tabList, cur, force) ==
    IF Len(tabList) = 1 THEN << >>
    ELSE IF Len(tabList) = 0 THEN
        << "### Open tabs",
           "No open tabs. Use the \"browser_navigate\" tool to navigate to a page first.",
           "" >>
    ELSE <<"### Open tabs">>
         \o [i \in 1..Len(tabList) |->
               "- " \o ToString(i - 1) \o ":" \o (IF i = cur THEN " (current)" ELSE "")
                   \o " [" \o tabList[i].lastTitle \o "] (" \o tabList[i].url \o ")"]
         \o <<"">>

\* renderTabsMarkdown(tabs, force); cur is the index of the current tab
renderTabsMarkdown(tabList, cur, force) ==
    IF Len(tabList) = 1 /\ ~force THEN << >>
    ELSE IF Len(tabList) = 0 THEN
        << "### Open tabs",
           "No open tabs. Use the \"browser_navigate\" tool to navigate to a page first.",
           "" >>
    ELSE <<"### Open tabs">>
         \o [i \in 1..Len(tabList) |->
               "- " \o ToString(i - 1) \o ":" \o (IF i = cur THEN " (current)" ELSE "")
                   \o " [" \o tabList[i].lastTitle \o "] (" \o tabList[i].url \o ")"]
         \o <<"">>

ResultSectionMutOnce(r) ==
    IF Len(_result[r]) # 0 /\ calls[r].serialize = 0
    THEN << "### Result", Join(_result[r], "\n"), "" >>
    ELSE << >>

\* serialize(): the Result section
ResultSection(r) ==
    IF Len(_result[r]) # 0
    THEN << "### Result", Join(_result[r], "\n"), "" >>
    ELSE << >>

\* serialize(): the code block
CodeSection(r) ==
    IF Len(_code[r]) # 0
    THEN << "### Ran Playwright code\n" \o Fence \o "js\n" \o Join(_code[r], "\n")
                \o "\n" \o Fence, "" >>
    ELSE << >>

\* serialize(): the tab list
TabsSection(r) ==
    IF _includeSnapshot[r] \/ _includeTabs[r]
    THEN renderTabsMarkdown(tabs, currentTab, _includeTabs[r])
    ELSE << >>

\* serialize(): everything pushed before the snapshot
SerializeHead(r) == ResultSection(r) \o CodeSection(r) \o TabsSection(r)

\* serialize(): which report the snapshot branch renders
SnapshotReportMutRefetch(r) ==
    IF _shouldIncludeSnapshot(r) /\ _tabSnapshot[r] # None
    THEN (IF currentTab # 0 /\ Len(tabs[currentTab].modalStates) # 0
          THEN "modal" ELSE "page")
    ELSE "none"

SnapshotReport(r) ==
    IF _shouldIncludeSnapshot(r) /\ _tabSnapshot[r] # None
    THEN (IF Len(_tabSnapshot[r].modalStates) # 0 THEN "modal" ELSE "page")
    ELSE "none"

\* serialize(): the content of that report
SnapshotContentMutBoth(r) ==
    IF SnapshotReport(r) = "modal"
    THEN Join(renderModalStates(_tabSnapshot[r].modalStates), "\n") \o "\n\n"
            \o renderTabSnapshot(_tabSnapshot[r], config)
    ELSE renderTabSnapshot(_tabSnapshot[r], config)

SnapshotContent(r) ==
    IF SnapshotReport(r) = "modal"
    THEN Join(renderModalStates(_tabSnapshot[r].modalStates), "\n")
    ELSE renderTabSnapshot(_tabSnapshot[r], config)

SnapshotLabel(r) ==
    IF SnapshotReport(r) = "modal" THEN "### Snapshot" ELSE "### Page info"

\* serialize(): the image blocks
ImageBlocksMutAlways(r) ==
    [i \in 1..Len(_images[r]) |->
        [type |-> "image", data |-> Base64(_images[r][i].data),
         mimeType |-> _images[r][i].contentType]]

ImageBlocks(r) ==
    IF config.imageResponses # "omit"
    THEN [i \in 1..Len(_images[r]) |->
            [type |-> "image", data |-> Base64(_images[r][i].data),
             mimeType |-> _images[r][i].contentType]]
    ELSE << >>

\* serialize(): the value returned for the pushed entries
SerializeReturnMutFlag(r, response) ==
    [content |-> <<[type |-> "text", text |-> Join(response, "\n")]>> \o ImageBlocks(r),
     isError |-> "undefined"]

SerializeReturn(r, response) ==
    [content |-> <<[type |-> "text", text |-> Join(response, "\n")]>> \o ImageBlocks(r),
     isError |-> _isError[r]]

(***************************************************************************)
(* The network request renderer (renderRequest) and what it uses of        *)
(* JavaScript: toUpperCase, substring, JSON.parse and JSON.stringify.      *)
(***************************************************************************)
LowerCase == "abcdefghijklmnopqrstuvwxyz"

UpperCase == "ABCDEFGHIJKLMNOPQRSTUVWXYZ"

RECURSIVE toUpperCase(_)
toUpperCase(s) ==
    IF Len(s) = 0 THEN ""
    ELSE LET c == CharAt(s, 1)
             at == {i \in 1..26 : CharAt(LowerCase, i) = c}
         IN  (IF at = {} THEN c ELSE CharAt(UpperCase, CHOOSE i \in at : TRUE))
                \o toUpperCase(SubSeq(s, 2, Len(s)))

\* String.prototype.substring(from, to), positions counted from 0
substring(s, from, to) == SubSeq(s, from + 1, IF to < Len(s) THEN to ELSE Len(s))

\* JSON values: objects (members in order), arrays, strings, numbers
JObject(members) == [kind |-> "object", text |-> "", members |-> members]

JArray(items) ==
    [kind |-> "array", text |-> "",
     members |-> [i \in 1..Len(items) |-> [key |-> "", value |-> items[i]]]]

JString(text) == [kind |-> "string", text |-> text, members |-> << >>]

JNumber(text) == [kind |-> "number", text |-> text, members |-> << >>]

SyntaxError == [kind |-> "SyntaxError", text |-> "", members |-> << >>]

\* JSON.parse, on the body texts of the model: the value of a text that is
\* JSON, SyntaxError for any other
JSONTexts ==
    << [raw |-> "{\"data\":{\"id\":1,\"tags\":[\"a\",\"b\"]}}",
        value |-> JObject(<< [key |-> "data",
                             value |-> JObject(<< [key |-> "id", value |-> JNumber("1")],
                                                  [key |-> "tags",
                                                   value |-> JArray(<<JString("a"), JString("b")>>)] >>)] >>)],
       [raw |-> "{\"errors\":[]}",
        value |-> JObject(<< [key |-> "errors", value |-> JArray(<< >>)] >>)] >>

JSONparse(text) ==
    LET hits == {i \in DOMAIN JSONTexts : JSONTexts[i].raw = text} IN
    IF hits = {} THEN SyntaxError ELSE JSONTexts[CHOOSE i \in hits : TRUE].value

\* JSON.stringify(value, null, 2), at a nesting depth of indent spaces
RECURSIVE JSONstringify(_, _)
JSONstringify(v, indent) ==
    IF v.kind = "string" THEN "\"" \o v.text \o "\""
    ELSE IF v.kind = "number" THEN v.text
    ELSE LET open == IF v.kind = "object" THEN "{" ELSE "["
             close == IF v.kind = "object" THEN "}" ELSE "]"
             n == Len(v.members)
         IN  IF n = 0 THEN open \o close
             ELSE open \o "\n"
                  \o Join([i \in 1..n |->
                            Rep(" ", indent + 2)
                                \o (IF v.kind = "object"
                                    THEN "\"" \o v.members[i].key \o "\": " ELSE "")
                                \o JSONstringify(v.members[i].value, indent + 2)], ",\n")
                  \o "\n" \o Rep(" ", indent) \o close

\* headers()['content-type'] of a message without that header
NoHeader == ""

\* the test of lines 339 and 355
IsJsonOrGraphql(contentType, url) ==
    (contentType # NoHeader /\ Contains(contentType, "application/json"))
        \/ Contains(url, "graphql")

\* lines 337-348: the request body, when it can be had
RequestBody(request) ==
    IF IsJsonOrGraphql(request.contentType, request.url)
        /\ request.postData.outcome = "returned"
        /\ request.postData.text # ""
    THEN <<"Request Body: " \o request.postData.text>>
    ELSE << >>

\* lines 353-369: the response body.  body.reads are the outcomes of the
\* first and the second call of response.body()
ResponseBodyMutNoCatch(request, response) ==
    IF ~IsJsonOrGraphql(response.contentType, request.url)
    THEN [outcome |-> "returned", lines |-> << >>]
    ELSE IF response.body.reads[1] = "returned"
            /\ JSONparse(response.body.text) # SyntaxError
    THEN [outcome |-> "returned",
          lines |-> <<"Response Body: " \o JSONstringify(JSONparse(response.body.text), 0)>>]
    ELSE IF response.body.reads[2] = "returned"
    THEN [outcome |-> "returned",
          lines |-> <<"Response Body (raw): " \o substring(response.body.text, 0, 1000)>>]
    ELSE [outcome |-> "threw", lines |-> << >>]

ResponseBody(request, response) ==
    IF ~IsJsonOrGraphql(response.contentType, request.url)
    THEN [outcome |-> "returned", lines |-> << >>]
    ELSE IF response.body.reads[1] = "returned"
            /\ JSONparse(response.body.text) # SyntaxError
    THEN [outcome |-> "returned",
          lines |-> <<"Response Body: " \o JSONstringify(JSONparse(response.body.text), 0)>>]
    ELSE IF response.body.reads[2] = "returned"
    THEN [outcome |-> "returned",
          lines |-> <<"Response Body (raw): " \o substring(response.body.text, 0, 1000)>>]
    ELSE [outcome |-> "returned", lines |-> <<"Response Body: [Unable to read]">>]

\* renderRequest(request, response): the block, or the exception it throws
renderRequest(pair) ==
    LET request == pair.request
        response == pair.response
        head == <<"[" \o toUpperCase(request.method) \o "] " \o request.url>>
                    \o RequestBody(request)
    IN  IF response = None
        THEN [outcome |-> "returned", text |-> Join(head, "\n")]
        ELSE LET body == ResponseBody(request, response) IN
             IF body.outcome = "threw"
             THEN [outcome |-> "threw", text |-> ""]
             ELSE [outcome |-> "returned",
                   text |-> Join(head
                                \o <<"=> [" \o ToString(response.status) \o "] "
                                        \o response.statusText>>
                                \o body.lines, "\n")]

(***************************************************************************)
(* The state after construction: the configuration is resolved, the pages  *)
(* are open, and each Response of the process is fresh (constructor).      *)
(***************************************************************************)
NoCalls == [add |-> 0, finish |-> 0, serialize |-> 0]

NoCall == [op |-> "sync", outcome |-> "returned", text |-> "", kind |-> ""]

InitContext(liveSet, outputModes, imageModes, tabLists, requestLists, tools) ==
    /\ config \in [outputToFiles : outputModes,
                   imageResponses : imageModes,
                   outputDir : {"/tmp/playwright-mcp-output"}]
    /\ tabs \in tabLists
    /\ currentTab \in (IF Len(tabs) = 0 THEN {0} ELSE 1..Len(tabs))
    /\ requests \in requestLists
    /\ now = 0
    /\ fs = << >>
    /\ live = liveSet
    /\ toolName \in [Responses -> tools]
    /\ \A r \in Responses \ liveSet : toolName[r] = CHOOSE t \in tools : TRUE
    /\ _result = [r \in Responses |-> << >>]
    /\ _code = [r \in Responses |-> << >>]
    /\ _images = [r \in Responses |-> << >>]
    /\ _includeSnapshot = [r \in Responses |-> FALSE]
    /\ _includeTabs = [r \in Responses |-> FALSE]
    /\ _tabSnapshot = [r \in Responses |-> None]
    /\ _outputFiles = [r \in Responses |-> << >>]
    /\ _isError = [r \in Responses |-> "undefined"]
    /\ pc = [r \in Responses |-> "idle"]
    /\ frame = [r \in Responses |-> None]
    /\ out = [r \in Responses |-> None]
    /\ last = [r \in Responses |-> NoCall]
    /\ calls = [r \in Responses |-> NoCalls]
    /\ writes = << >>
    /\ captures = [r \in Responses |-> 0]
    /\ added = [r \in Responses |-> << >>]
    /\ errorCalls = [r \in Responses |-> 0]
    /\ routing = {}
    /\ titleUpdates = [r \in Responses |-> << >>]

InitWith(liveSet, outputModes, imageModes, tabCounts, tools) ==
    InitContext(liveSet, outputModes, imageModes,
                {[i \in 1..n |-> Page(i)] : n \in tabCounts}, {<< >>}, tools)

Init ==
    InitWith({1}, BOOLEAN, {"allow", "omit"}, 0..MaxTabs, {"browser_console_messages"})

(***************************************************************************)
(* Bookkeeping shared by the actions.                                      *)
(***************************************************************************)
Idle(r) == r \in live /\ pc[r] = "idle"

SeqOf(c) == c.add + c.finish + c.serialize

\* last records the asynchronous call a Response completed last, with its
\* arguments and outcome; a synchronous method leaves "sync"
Completed(r, op, outcome, text, kind) ==
    last' = [last EXCEPT ![r] =
                [op |-> op, outcome |-> outcome, text |-> text, kind |-> kind]]

\* The protocol of the framework that owns a Response: the tool handler's
\* calls come first, then finish(), then serialize()
InHandler(r) == calls[r].finish = 0 /\ calls[r].serialize = 0

BeforeSerialize(r) == calls[r].serialize = 0

Started(r, what) ==
    [calls EXCEPT ![r] = [@ EXCEPT ![what] = @ + 1]]

(***************************************************************************)
(* The synchronous methods.                                                *)
(***************************************************************************)
AddResult(r, text) ==
    /\ Idle(r)
    /\ InHandler(r)
    /\ calls[r].add < MaxAdds
    /\ calls' = Started(r, "add")
    /\ _result' = [_result EXCEPT ![r] = addResult(@, text)]
    /\ added' = [added EXCEPT ![r] = Append(@, text)]
    /\ Completed(r, "sync", "returned", "", "")
    /\ UNCHANGED << config, requests, tabs, currentTab, now, fs, live, toolName, _code,
                    _images, _includeSnapshot, _includeTabs, _tabSnapshot,
                    _outputFiles, _isError, pc, frame, out, writes, captures,
                    errorCalls, routing, titleUpdates >>

AddError(r, text) ==
    /\ Idle(r)
    /\ InHandler(r)
    /\ calls[r].add < MaxAdds
    /\ calls' = Started(r, "add")
    /\ LET e == addError(_result[r], _isError[r], text) IN
        /\ _result' = [_result EXCEPT ![r] = e.result]
        /\ _isError' = [_isError EXCEPT ![r] = e.isError]
    /\ added' = [added EXCEPT ![r] = Append(@, text)]
    /\ errorCalls' = [errorCalls EXCEPT ![r] = @ + 1]
    /\ Completed(r, "sync", "returned", "", "")
    /\ UNCHANGED << config, requests, tabs, currentTab, now, fs, live, toolName, _code,
                    _images, _includeSnapshot, _includeTabs, _tabSnapshot,
                    _outputFiles, pc, frame, out, writes, captures, routing,
                    titleUpdates >>

AddCode(r, text) ==
    /\ Idle(r)
    /\ InHandler(r)
    /\ calls[r].add < MaxAdds
    /\ calls' = Started(r, "add")
    /\ _code' = [_code EXCEPT ![r] = Append(@, text)]
    /\ Completed(r, "sync", "returned", "", "")
    /\ UNCHANGED << config, requests, tabs, currentTab, now, fs, live, toolName, _result,
                    _images, _includeSnapshot, _includeTabs, _tabSnapshot,
                    _outputFiles, _isError, pc, frame, out, writes, captures,
                    added, errorCalls, routing, titleUpdates >>

AddImage(r, image) ==
    /\ Idle(r)
    /\ InHandler(r)
    /\ calls[r].add < MaxAdds
    /\ calls' = Started(r, "add")
    /\ _images' = [_images EXCEPT ![r] = Append(@, image)]
    /\ Completed(r, "sync", "returned", "", "")
    /\ UNCHANGED << config, requests, tabs, currentTab, now, fs, live, toolName, _result,
                    _code, _includeSnapshot, _includeTabs, _tabSnapshot,
                    _outputFiles, _isError, pc, frame, out, writes, captures,
                    added, errorCalls, routing, titleUpdates >>

SetIncludeSnapshot(r) ==
    /\ Idle(r)
    /\ InHandler(r)
    /\ _includeSnapshot' = [_includeSnapshot EXCEPT ![r] = TRUE]
    /\ Completed(r, "sync", "returned", "", "")
    /\ UNCHANGED << config, requests, tabs, currentTab, now, fs, live, toolName, _result,
                    _code, _images, _includeTabs, _tabSnapshot, _outputFiles,
                    _isError, pc, frame, out, calls, writes, captures, added,
                    errorCalls, routing, titleUpdates >>

SetIncludeTabs(r) ==
    /\ Idle(r)
    /\ InHandler(r)
    /\ _includeTabs' = [_includeTabs EXCEPT ![r] = TRUE]
    /\ Completed(r, "sync", "returned", "", "")
    /\ UNCHANGED << config, requests, tabs, currentTab, now, fs, live, toolName, _result,
                    _code, _images, _includeSnapshot, _tabSnapshot, _outputFiles,
                    _isError, pc, frame, out, calls, writes, captures, added,
                    errorCalls, routing, titleUpdates >>

(***************************************************************************)
(* _writeDetailedOutputToFile, one step per await.                         *)
(***************************************************************************)
\* Lines 104-106: reads the clock (t), derives the filename, calls
\* outputFile and suspends.  The frame keeps the locals of the caller and of
\* the writer.
WriteFrame(r, t, op, text, type, content, label, response) ==
    [op |-> op, text |-> text, type |-> type, detailedContent |-> content,
     label |-> label, response |-> response,
     filename |-> Filename(toolName[r], t), filepath |-> ""]

\* What new Date() may read: the clock never runs backwards, and any number
\* of milliseconds (none included) has passed since it was last read
ClockReadings == now..MaxClock

Decision(kind, content, toFile) ==
    [kind |-> kind, small |-> Len(content) <= 500, toFile |-> toFile]

\* the await of outputFile() resolves: line 108 calls fs.writeFile and suspends
OutputFileReturns(r) ==
    /\ r \in live
    /\ pc[r] = "outputFile"
    /\ frame' = [frame EXCEPT ![r] =
                    [@ EXCEPT !.filepath = outputFile(config, frame[r].filename)]]
    /\ pc' = [pc EXCEPT ![r] = "writeFile"]
    /\ UNCHANGED << config, requests, tabs, currentTab, now, fs, live, toolName, _result,
                    _code, _images, _includeSnapshot, _includeTabs,
                    _tabSnapshot, _outputFiles, _isError, out, last, calls,
                    writes, captures, added, errorCalls, routing, titleUpdates >>

\* outputFile() or fs.writeFile() rejects: nothing catches it, so the
\* rejection leaves _writeDetailedOutputToFile and the method that called it
WriteFailsMutSwallowed(r) ==
    /\ r \in live
    /\ pc[r] \in {"outputFile", "writeFile"}
    /\ pc' = [pc EXCEPT ![r] = "idle"]
    /\ frame' = [frame EXCEPT ![r] = None]
    /\ _outputFiles' = [_outputFiles EXCEPT ![r] =
                            Append(@, outputFile(config, frame[r].filename))]
    /\ Completed(r, frame[r].op, "returned", frame[r].text, frame[r].type)
    /\ UNCHANGED << config, requests, tabs, currentTab, now, fs, live, toolName, _result,
                    _code, _images, _includeSnapshot, _includeTabs,
                    _tabSnapshot, _isError, out, calls, writes,
                    captures, added, errorCalls, routing, titleUpdates >>

WriteFails(r) ==
    /\ r \in live
    /\ pc[r] \in {"outputFile", "writeFile"}
    /\ pc' = [pc EXCEPT ![r] = "idle"]
    /\ frame' = [frame EXCEPT ![r] = None]
    /\ Completed(r, frame[r].op, "threw", frame[r].text, frame[r].type)
    /\ UNCHANGED << config, requests, tabs, currentTab, now, fs, live, toolName, _result,
                    _code, _images, _includeSnapshot, _includeTabs,
                    _tabSnapshot, _outputFiles, _isError, out, calls, writes,
                    captures, added, errorCalls, routing, titleUpdates >>

\* the file as fs.writeFile leaves it
writeFile(files, filepath, content) ==
    [p \in DOMAIN files \cup {filepath} |->
        IF p = filepath THEN content ELSE files[p]]

\* fs.writeFile() resolves: lines 109-111 record the path and return it, and
\* the caller goes on (lines 55-56 of addResultWithFileOption, or lines
\* 166-168 / 177-179 and 186-197 of serialize) without suspending again
WriteFileReturns(r) ==
    /\ r \in live
    /\ pc[r] = "writeFile"
    /\ LET f == frame[r] IN
        /\ fs' = writeFile(fs, f.filepath, f.detailedContent)
        /\ writes' = Append(writes,
                        [path |-> f.filepath, content |-> f.detailedContent,
                         type |-> f.type, by |-> r, call |-> f.op,
                         seq |-> SeqOf(calls[r])])
        /\ _outputFiles' = [_outputFiles EXCEPT ![r] = Append(@, f.filepath)]
        /\ IF f.op = "addResultWithFileOption"
           THEN LET lines == FilePointer(f.type, f.filepath) IN
                /\ _result' = [_result EXCEPT ![r] =
                                addResult(addResult(@, lines[1]), lines[2])]
                /\ added' = [added EXCEPT ![r] = @ \o lines]
                /\ out' = out
           ELSE /\ out' = [out EXCEPT ![r] =
                            SerializeReturn(r, f.response \o SnapshotPointer(f.label, f.filepath))]
                /\ UNCHANGED << _result, added >>
        /\ Completed(r, f.op, "returned", f.text, f.type)
    /\ pc' = [pc EXCEPT ![r] = "idle"]
    /\ frame' = [frame EXCEPT ![r] = None]
    /\ UNCHANGED << config, requests, tabs, currentTab, now, live, toolName, _code,
                    _images, _includeSnapshot, _includeTabs, _tabSnapshot,
                    _isError, calls, captures, errorCalls, routing,
                    titleUpdates >>

(***************************************************************************)
(* addResultWithFileOption                                                 *)
(***************************************************************************)
AddResultWithFileOption(r, text, type) ==
    /\ Idle(r)
    /\ InHandler(r)
    /\ calls[r].add < MaxAdds
    /\ calls' = Started(r, "add")
    /\ IF ShouldWriteFile(config, text)
       THEN /\ \E t \in ClockReadings :
                /\ now' = t
                /\ frame' = [frame EXCEPT ![r] =
                        WriteFrame(r, t, "addResultWithFileOption", text, type, text, "", << >>)]
            /\ pc' = [pc EXCEPT ![r] = "outputFile"]
            /\ routing' = routing \cup {Decision(type, text, TRUE)}
            /\ UNCHANGED << _result, added, last >>
       ELSE /\ _result' = [_result EXCEPT ![r] = addResult(@, text)]
            /\ added' = [added EXCEPT ![r] = Append(@, text)]
            /\ routing' = routing \cup
                    (IF config.outputToFiles THEN {Decision(type, text, FALSE)} ELSE {})
            /\ Completed(r, "addResultWithFileOption", "returned", text, type)
            /\ UNCHANGED << pc, frame, now >>
    /\ UNCHANGED << config, requests, tabs, currentTab, fs, live, toolName, _code,
                    _images, _includeSnapshot, _includeTabs, _tabSnapshot,
                    _outputFiles, _isError, out, writes, captures, errorCalls,
                    titleUpdates >>

(***************************************************************************)
(* The browser_network_requests tool.                                      *)
(***************************************************************************)
RECURSIVE addResults(_, _)
addResults(res, texts) ==
    IF Len(texts) = 0 THEN res
    ELSE addResults(addResult(res, Head(texts)), Tail(texts))

\* lines 326-328: addResult for each block, until a renderRequest throws
AddResultEach(r, texts, outcome) ==
    /\ Idle(r)
    /\ InHandler(r)
    /\ calls[r].add < MaxAdds
    /\ calls' = Started(r, "add")
    /\ _result' = [_result EXCEPT ![r] = addResults(@, texts)]
    /\ added' = [added EXCEPT ![r] = @ \o texts]
    /\ Completed(r, "handle", outcome, "", "network")
    /\ UNCHANGED << config, requests, tabs, currentTab, now, fs, live, toolName,
                    _code, _images, _includeSnapshot, _includeTabs, _tabSnapshot,
                    _outputFiles, _isError, pc, frame, out, writes, captures,
                    errorCalls, routing, titleUpdates >>

\* the blocks rendered before the first renderRequest that throws
RECURSIVE RenderedBeforeThrow(_)
RenderedBeforeThrow(entries) ==
    IF Len(entries) = 0 THEN << >>
    ELSE LET block == renderRequest(Head(entries)) IN
         IF block.outcome = "threw" THEN << >>
         ELSE <<block.text>> \o RenderedBeforeThrow(Tail(entries))

\* handle(tab, params, response) of the tool, run once on its Response
handle(r) ==
    /\ toolName[r] = "browser_network_requests"
    /\ calls[r].add = 0
    /\ LET requestEntries == requests
           renderedRequests == RenderedBeforeThrow(requestEntries)
           threw == Len(renderedRequests) < Len(requestEntries)
       IN  IF Len(requestEntries) = 0
           THEN AddResult(r, "No network requests captured.")
           ELSE IF config.outputToFiles
           THEN (IF threw
                 THEN AddResultEach(r, << >>, "threw")
                 ELSE AddResultWithFileOption(r, Join(renderedRequests, "\n\n"), "network"))
           ELSE AddResultEach(r, renderedRequests, IF threw THEN "threw" ELSE "returned")

(***************************************************************************)
(* serialize                                                               *)
(***************************************************************************)
Serialize(r) ==
    /\ Idle(r)
    /\ calls[r].serialize < MaxSerialize
    /\ calls' = Started(r, "serialize")
    /\ LET response == SerializeHead(r) IN
       IF SnapshotReport(r) = "none"
       THEN /\ out' = [out EXCEPT ![r] = SerializeReturn(r, response)]
            /\ Completed(r, "serialize", "returned", "", "")
            /\ UNCHANGED << pc, frame, routing, now >>
       ELSE IF config.outputToFiles
       THEN /\ \E t \in ClockReadings :
                /\ now' = t
                /\ frame' = [frame EXCEPT ![r] =
                        WriteFrame(r, t, "serialize", "", "snapshot", SnapshotContent(r),
                                   SnapshotLabel(r), response)]
            /\ pc' = [pc EXCEPT ![r] = "outputFile"]
            /\ routing' = routing \cup {Decision("snapshot", SnapshotContent(r), TRUE)}
            /\ UNCHANGED << out, last >>
       ELSE /\ out' = [out EXCEPT ![r] =
                        SerializeReturn(r, response \o << SnapshotContent(r), "" >>)]
            /\ Completed(r, "serialize", "returned", "", "")
            /\ UNCHANGED << pc, frame, routing, now >>
    /\ UNCHANGED << config, requests, tabs, currentTab, fs, live, toolName, _result,
                    _code, _images, _includeSnapshot, _includeTabs,
                    _tabSnapshot, _outputFiles, _isError, writes, captures,
                    added, errorCalls, titleUpdates >>

(***************************************************************************)
(* finish, one step per await.                                             *)
(***************************************************************************)
\* finish(): whether line 127 calls captureSnapshot
ShouldCapture(r) == _includeSnapshot[r] /\ currentTab # 0

TitleLoopMutFirstOnly(r, i) ==
    IF i <= Len(tabs) /\ i <= 1
    THEN /\ pc' = [pc EXCEPT ![r] = "updateTitle"]
         /\ frame' = [frame EXCEPT ![r] = [op |-> "finish", i |-> i]]
         /\ last' = last
    ELSE /\ pc' = [pc EXCEPT ![r] = "idle"]
         /\ frame' = [frame EXCEPT ![r] = None]
         /\ Completed(r, "finish", "returned", "", "")

\* The loop of lines 129-130 from tab i on: suspends in tab i's
\* updateTitle(), or returns from finish() when the registry is exhausted.
TitleLoop(r, i) ==
    IF i <= Len(tabs)
    THEN /\ pc' = [pc EXCEPT ![r] = "updateTitle"]
         /\ frame' = [frame EXCEPT ![r] = [op |-> "finish", i |-> i]]
         /\ last' = last
    ELSE /\ pc' = [pc EXCEPT ![r] = "idle"]
         /\ frame' = [frame EXCEPT ![r] = None]
         /\ Completed(r, "finish", "returned", "", "")

Finish(r) ==
    /\ Idle(r)
    /\ BeforeSerialize(r)
    /\ calls[r].finish < MaxFinish
    /\ calls' = Started(r, "finish")
    /\ titleUpdates' = [titleUpdates EXCEPT ![r] = << >>]
    /\ IF ShouldCapture(r)
       THEN /\ pc' = [pc EXCEPT ![r] = "captureSnapshot"]
            /\ frame' = [frame EXCEPT ![r] = [op |-> "finish", tab |-> currentTab]]
            /\ last' = last
       ELSE TitleLoop(r, 1)
    /\ UNCHANGED << config, requests, tabs, currentTab, now, fs, live, toolName, _result,
                    _code, _images, _includeSnapshot, _includeTabs,
                    _tabSnapshot, _outputFiles, _isError, out, writes,
                    captures, added, errorCalls, routing >>

\* the await of captureSnapshot() resolves: line 128 attaches the snapshot
CaptureSnapshotReturns(r) ==
    /\ r \in live
    /\ pc[r] = "captureSnapshot"
    /\ _tabSnapshot' = [_tabSnapshot EXCEPT ![r] = captureSnapshot(tabs[frame[r].tab])]
    /\ captures' = [captures EXCEPT ![r] = @ + 1]
    /\ tabs' = [tabs EXCEPT ![frame[r].tab] = afterCapture(@)]
    /\ IF 1 <= Len(tabs)
       THEN /\ pc' = [pc EXCEPT ![r] = "updateTitle"]
            /\ frame' = [frame EXCEPT ![r] = [op |-> "finish", i |-> 1]]
            /\ last' = last
       ELSE /\ pc' = [pc EXCEPT ![r] = "idle"]
            /\ frame' = [frame EXCEPT ![r] = None]
            /\ Completed(r, "finish", "returned", "", "")
    /\ UNCHANGED << config, requests, currentTab, now, fs, live, toolName, _result, _code,
                    _images, _includeSnapshot, _includeTabs, _outputFiles,
                    _isError, out, calls, writes, added, errorCalls, routing,
                    titleUpdates >>

\* the await of tab i's updateTitle() resolves: the loop goes on
UpdateTitleReturns(r) ==
    /\ r \in live
    /\ pc[r] = "updateTitle"
    /\ LET i == frame[r].i IN
        /\ tabs' = [tabs EXCEPT ![i] = updateTitle(@)]
        /\ titleUpdates' = [titleUpdates EXCEPT ![r] = Append(@, i)]
        /\ TitleLoop(r, i + 1)
    /\ UNCHANGED << config, requests, currentTab, now, fs, live, toolName, _result, _code,
                    _images, _includeSnapshot, _includeTabs, _tabSnapshot,
                    _outputFiles, _isError, out, calls, writes, captures, added,
                    errorCalls, routing >>

(***************************************************************************)
(* The environment: a dialog opens or closes on the current page.  The     *)
(* process is single-threaded, so a page event is delivered while the      *)
(* event loop runs: here, while a Response is suspended in an await.  The  *)
(* page is read by captureSnapshot only, so an event delivered between     *)
(* two calls is the same event delivered during the next await.            *)
(***************************************************************************)
EventLoopRuns == \E r \in live : pc[r] # "idle"

DialogOpens ==
    /\ EventLoopRuns
    /\ currentTab # 0
    /\ tabs[currentTab].modalStates = << >>
    /\ tabs' = [tabs EXCEPT ![currentTab].modalStates = <<Dialog>>]
    /\ UNCHANGED << config, requests, currentTab, now, fs, live, toolName, _result, _code,
                    _images, _includeSnapshot, _includeTabs, _tabSnapshot,
                    _outputFiles, _isError, pc, frame, out, last, calls, writes,
                    captures, added, errorCalls, routing, titleUpdates >>

DialogCloses ==
    /\ EventLoopRuns
    /\ currentTab # 0
    /\ tabs[currentTab].modalStates # << >>
    /\ tabs' = [tabs EXCEPT ![currentTab].modalStates = << >>]
    /\ UNCHANGED << config, requests, currentTab, now, fs, live, toolName, _result, _code,
                    _images, _includeSnapshot, _includeTabs, _tabSnapshot,
                    _outputFiles, _isError, pc, frame, out, last, calls, writes,
                    captures, added, errorCalls, routing, titleUpdates >>

(***************************************************************************)
(* One Response driven by its tool handler and the framework.              *)
(***************************************************************************)
Next ==
    \/ \E r \in Responses, t \in ResultTexts : AddResult(r, t)
    \/ \E r \in Responses, t \in ErrorTexts : AddError(r, t)
    \/ \E r \in Responses, t \in CodeTexts : AddCode(r, t)
    \/ \E r \in Responses, i \in Images : AddImage(r, i)
    \/ \E r \in Responses : SetIncludeSnapshot(r)
    \/ \E r \in Responses : SetIncludeTabs(r)
    \/ \E r \in Responses, d \in DetailCalls : AddResultWithFileOption(r, d.text, d.type)
    \/ \E r \in Responses : OutputFileReturns(r)
    \/ \E r \in Responses : WriteFails(r)
    \/ \E r \in Responses : WriteFileReturns(r)
    \/ \E r \in Responses : Finish(r)
    \/ \E r \in Responses : CaptureSnapshotReturns(r)
    \/ \E r \in Responses : UpdateTitleReturns(r)
    \/ \E r \in Responses : Serialize(r)
    \/ DialogOpens
    \/ DialogCloses

Spec == Init /\ [][Next]_vars

(***************************************************************************)
(* The same, with the scheduling of the event loop: a promise of           *)
(* captureSnapshot() or updateTitle() that can resolve does resolve.       *)
(***************************************************************************)
Fairness ==
    \A r \in Responses :
        /\ WF_vars(CaptureSnapshotReturns(r))
        /\ WF_vars(UpdateTitleReturns(r))

SpecFair == Spec /\ Fairness

(***************************************************************************)
(* Several Responses of one process, each owned by its own tool            *)
(* invocation, writing detailed output into the shared output directory.   *)
(***************************************************************************)
InitConc == InitWith(Responses, {TRUE}, {"allow"}, {1}, ToolNames)

NextConc ==
    \/ \E r \in Responses, d \in DetailCalls : AddResultWithFileOption(r, d.text, d.type)
    \/ \E r \in Responses : Serialize(r)
    \/ \E r \in Responses : OutputFileReturns(r)
    \/ \E r \in Responses : WriteFileReturns(r)
    \/ \E r \in Responses : WriteFails(r)

SpecConc == InitConc /\ [][NextConc]_vars

(***************************************************************************)
(* The snapshot renderer on its inputs: one Response, inline output, one   *)
(* tab that has logged 0..MaxMessages console messages, captured by        *)
(* finish() and rendered by serialize().                                   *)
(***************************************************************************)
InitRender ==
    InitContext({1}, {FALSE}, {"allow"}, {<<LoggedPage(n)>> : n \in 0..MaxMessages},
                {<< >>}, {"browser_console_messages"})

NextRender ==
    \/ \E r \in Responses : SetIncludeSnapshot(r)
    \/ \E r \in Responses : SetIncludeTabs(r)
    \/ \E r \in Responses : Finish(r)
    \/ \E r \in Responses : CaptureSnapshotReturns(r)
    \/ \E r \in Responses : UpdateTitleReturns(r)
    \/ \E r \in Responses : Serialize(r)

SpecRender == InitRender /\ [][NextRender]_vars

(***************************************************************************)
(* The browser_network_requests tool on its inputs: one Response of that   *)
(* tool, a tab that has recorded some request/response pairs, the handler, *)
(* the file write it may start, and serialize().                           *)
(***************************************************************************)
InitNet ==
    InitContext({1}, BOOLEAN, {"allow"}, {<<Page(2)>>}, RequestLists,
                {"browser_network_requests"})

NextNet ==
    \/ \E r \in Responses : handle(r)
    \/ \E r \in Responses : OutputFileReturns(r)
    \/ \E r \in Responses : WriteFileReturns(r)
    \/ \E r \in Responses : WriteFails(r)
    \/ \E r \in Responses : Serialize(r)

SpecNet == InitNet /\ [][NextNet]_vars

(***************************************************************************)
(* Vocabulary of the properties.                                           *)
(***************************************************************************)
\* the Response has just returned from serialize(): out holds its payload
SerializeReturned(r) ==
    r \in live /\ pc[r] = "idle"
        /\ last[r].op = "serialize" /\ last[r].outcome = "returned"

\* the Response has just returned from addResultWithFileOption()
DetailReturned(r) ==
    r \in live /\ pc[r] = "idle"
        /\ last[r].op = "addResultWithFileOption" /\ last[r].outcome = "returned"

\* the text block of the payload serialize() returned
TextOf(r) == out[r].content[1].text

\* the completed writes of a Response, in order: all, and those of one method
WritesBy(r) == SelectSeq(writes, LAMBDA w : w.by = r)

WritesOf(r, method) == SelectSeq(writes, LAMBDA w : w.by = r /\ w.call = method)

\* the completed writes of the call the Response made last
WritesOfLastCall(r) ==
    SelectSeq(writes, LAMBDA w : w.by = r /\ w.seq = SeqOf(calls[r]))

\* text holds a line that ends with ": <name>", followed by the usage hint line
HasPointerTo(text, name) == Contains(text, ": " \o name \o "\n" \o UsageHint \o "\n")

(***************************************************************************)
(* C1.  No two auxiliary file writes of the process target the same        *)
(* filename: the paths of all completed writes, whichever Response and     *)
(* method issued them, are pairwise distinct.                              *)
(***************************************************************************)
C1_NoFilenameCollision ==
    \A i, j \in DOMAIN writes : i # j => writes[i].path # writes[j].path

(***************************************************************************)
(* C2.  A Response captures its snapshot at most once: no finish() after   *)
(* the one that attached the snapshot calls captureSnapshot again.         *)
(***************************************************************************)
C2_SnapshotCapturedOnce == \A r \in live : captures[r] <= 1

(***************************************************************************)
(* C3.  isError() is true exactly when addError was called on the          *)
(* Response, whatever else was called, and the isError flag serialize()    *)
(* returns is that value.                                                  *)
(***************************************************************************)
C3_IsErrorIffAddError ==
    \A r \in live :
        /\ (isError(r) = "true") <=> (errorCalls[r] >= 1)
        /\ isError(r) \in {"true", "undefined"}
        /\ SerializeReturned(r) => out[r].isError = isError(r)

C3_Witness ==
    \E r \in live :
        /\ SerializeReturned(r)
        /\ errorCalls[r] >= 1
        /\ out[r].isError = "true"
        /\ calls[r].finish >= 1

(***************************************************************************)
(* C4.  With outputToFiles set, one routing rule serves every kind of      *)
(* detailed content: either each piece goes to a file exactly when it is   *)
(* longer than 500 characters, or every piece goes to a file.              *)
(***************************************************************************)
C4_OneRoutingRule ==
    config.outputToFiles =>
        \/ \A d \in routing : d.toFile <=> ~d.small
        \/ \A d \in routing : d.toFile

(***************************************************************************)
(* C5.  With outputToFiles set, addResultWithFileOption(text, kind)        *)
(* appends a text of at most 500 characters unchanged and writes no file;  *)
(* for a longer text it writes exactly one file, whose content is the      *)
(* text, and appends the pointer "<kind>: <basename>" and the usage hint   *)
(* instead of the text.                                                    *)
(***************************************************************************)
C5_Threshold500 ==
    \A r \in live :
        (config.outputToFiles /\ DetailReturned(r)) =>
            LET text == last[r].text
                mine == WritesOfLastCall(r)
                n == Len(_result[r])
            IN  /\ _result[r] = added[r]
                /\ IF Len(text) <= 500
                   THEN /\ Len(mine) = 0
                        /\ n >= 1
                        /\ _result[r][n] = text
                   ELSE /\ Len(mine) = 1
                        /\ mine[1].content = text
                        /\ mine[1].path \in DOMAIN fs
                        /\ fs[mine[1].path] = text
                        /\ _outputFiles[r][Len(_outputFiles[r])] = mine[1].path
                        /\ n >= 2
                        /\ _result[r][n - 1] = last[r].kind \o ": " \o basename(mine[1].path)
                        /\ ~Contains(_result[r][n - 1], "/")
                        /\ _result[r][n] = "Use: head/grep/tail/cat"
                        /\ \A i \in 1..n : _result[r][i] # text

C5_Witness ==
    \E r \in live :
        /\ config.outputToFiles
        /\ DetailReturned(r)
        /\ Len(last[r].text) = 501
        /\ Len(_result[r]) = 3
        /\ Len(_result[r][1]) = 500

(***************************************************************************)
(* C6.  With outputToFiles unset no call ever writes a file, and the       *)
(* complete detailed content is inline: every text passed to               *)
(* addResultWithFileOption, and of an attached snapshot every console      *)
(* message in full, the URL, the title and the accessibility tree.         *)
(***************************************************************************)
NothingWritten(r) ==
    /\ writes = << >>
    /\ DOMAIN fs = {}
    /\ _outputFiles[r] = << >>

DetailInline(r) ==
    /\ DetailReturned(r) =>
            /\ Len(_result[r]) >= 1
            /\ _result[r][Len(_result[r])] = last[r].text
    /\ SerializeReturned(r) =>
            \A i \in DOMAIN _result[r] : Contains(TextOf(r), _result[r][i] \o "\n")

C6_CompleteContentInline ==
    \A r \in live :
        ~config.outputToFiles =>
            /\ NothingWritten(r)
            /\ DetailInline(r)
            /\ (SerializeReturned(r) /\ _tabSnapshot[r] # None) =>
                    LET snap == _tabSnapshot[r] IN
                    /\ \A i \in DOMAIN snap.consoleMessages :
                            Contains(TextOf(r), messageToString(snap.consoleMessages[i]))
                    /\ Contains(TextOf(r), snap.url)
                    /\ Contains(TextOf(r), snap.title)
                    /\ Contains(TextOf(r), snap.ariaSnapshot)

(***************************************************************************)
(* C6, as amended.  With outputToFiles unset no call ever writes a file,   *)
(* every text passed to addResultWithFileOption is inline in full, and an  *)
(* attached snapshot is rendered inline: as the modal-state report alone   *)
(* when it holds a modal state; otherwise with URL, title, accessibility   *)
(* tree and downloads in full and only the first 5 console messages, each  *)
(* cut to 100 characters plus "...", then "... and n - 5 more".            *)
(***************************************************************************)
Shown(message) ==
    LET m == messageToString(message) IN
    "- " \o (IF Len(m) <= 100 THEN m ELSE SubSeq(m, 1, 100) \o "...") \o "\n"

C6_InlineWhenDisabled ==
    \A r \in live :
        ~config.outputToFiles =>
            /\ NothingWritten(r)
            /\ DetailInline(r)
            /\ (SerializeReturned(r) /\ _tabSnapshot[r] # None) =>
                    LET snap == _tabSnapshot[r]
                        n == Len(snap.consoleMessages)
                    IN  IF Len(snap.modalStates) # 0
                        THEN /\ Contains(TextOf(r), "### Modal state\n")
                             /\ \A i \in DOMAIN snap.modalStates :
                                    Contains(TextOf(r), snap.modalStates[i].description)
                             /\ ~Contains(TextOf(r), "### Page state")
                             /\ ~Contains(TextOf(r), "console messages")
                        ELSE /\ Contains(TextOf(r), "- Page URL: " \o snap.url \o "\n")
                             /\ Contains(TextOf(r), "- Page Title: " \o snap.title \o "\n")
                             /\ Contains(TextOf(r), "\n" \o snap.ariaSnapshot \o "\n")
                             /\ \A i \in DOMAIN snap.downloads :
                                    Contains(TextOf(r), snap.downloads[i].suggestedFilename)
                             /\ \A i \in 1..n :
                                    IF i <= 5
                                    THEN Contains(TextOf(r), Shown(snap.consoleMessages[i]))
                                    ELSE ~Contains(TextOf(r), snap.consoleMessages[i].text)
                             /\ (n > 5) <=> Contains(TextOf(r),
                                    "- ... and " \o ToString(n - 5) \o " more console messages\n")

C6_Witness ==
    \E r \in live :
        /\ ~config.outputToFiles
        /\ SerializeReturned(r)
        /\ _tabSnapshot[r] # None
        /\ Len(_tabSnapshot[r].modalStates) = 0
        /\ Len(_tabSnapshot[r].consoleMessages) = 7
        /\ \E i \in DOMAIN _result[r] : Len(_result[r][i]) = 501

(***************************************************************************)
(* C7.  When the serialize() of an invocation returns, its text holds,     *)
(* for every file the invocation wrote (addResultWithFileOption and        *)
(* serialize alike), a pointer line ending in the file's basename,         *)
(* followed by the usage hint line, and nowhere the file's full path.      *)
(* The serialize() meant is the one the protocol allows: the Response's    *)
(* only one.                                                               *)
(***************************************************************************)
C7_PointerToEveryFile ==
    \A r \in live :
        (SerializeReturned(r) /\ calls[r].serialize = 1) =>
            /\ \A i \in DOMAIN _outputFiles[r] :
                    /\ HasPointerTo(TextOf(r), basename(_outputFiles[r][i]))
                    /\ ~Contains(TextOf(r), _outputFiles[r][i])
            /\ \A i \in DOMAIN WritesBy(r) :
                    HasPointerTo(TextOf(r), basename(WritesBy(r)[i].path))

C7_Witness ==
    \E r \in live :
        /\ SerializeReturned(r)
        /\ calls[r].serialize = 1
        /\ Len(WritesOf(r, "addResultWithFileOption")) = 1
        /\ Len(WritesOf(r, "serialize")) = 1
        /\ WritesOf(r, "serialize")[1].path # WritesOf(r, "addResultWithFileOption")[1].path

(***************************************************************************)
(* C8.  An auxiliary write is all or nothing.  The paths a Response        *)
(* recorded are exactly those of its completed writes, the pointer lines   *)
(* among its result lines are exactly those of its completed               *)
(* addResultWithFileOption writes, and a snapshot pointer in a serialized  *)
(* text names a completed serialize write: a call whose write (or path     *)
(* resolution) failed has recorded no path and added no pointer.           *)
(***************************************************************************)
HasSnapshotPointer(text) ==
    \/ Contains(text, "\n### Snapshot: ")
    \/ Contains(text, "\n### Page info: ")
    \/ StartsWith(text, "### Snapshot: ")
    \/ StartsWith(text, "### Page info: ")

IsPointerLine(line) == StartsWith(line, "console: ") \/ StartsWith(line, "network: ")

C8_WriteAllOrNothing ==
    \A r \in live :
        LET mine == WritesBy(r)
            detail == WritesOf(r, "addResultWithFileOption")
            pointers == SelectSeq(_result[r], IsPointerLine)
        IN  /\ _outputFiles[r] = [i \in 1..Len(mine) |-> mine[i].path]
            /\ Len(pointers) = Len(detail)
            /\ \A i \in DOMAIN detail :
                    /\ pointers[i] = detail[i].type \o ": " \o basename(detail[i].path)
                    /\ Len(detail[i].content) > 500
            /\ \A i \in DOMAIN mine : mine[i].path \in DOMAIN fs
            /\ (out[r] # None /\ HasSnapshotPointer(TextOf(r))) =>
                    \E i \in DOMAIN mine :
                        /\ mine[i].call = "serialize"
                        /\ HasPointerTo(TextOf(r), basename(mine[i].path))

C8_Witness ==
    \E r \in live :
        /\ pc[r] = "idle"
        /\ last[r].outcome = "threw"
        /\ Len(_outputFiles[r]) = 1
        /\ calls[r].add = 2

(***************************************************************************)
(* C9.  When lines were added by addResult/addError, the serialized text   *)
(* begins with the "### Result" section holding all of them in the order   *)
(* of the calls, for both values of outputToFiles, and no file serialize() *)
(* writes holds the Result section or one of its lines.                    *)
(***************************************************************************)
C9_ResultSectionFirst ==
    \A r \in live :
        SerializeReturned(r) =>
            /\ Len(added[r]) > 0 =>
                    StartsWith(TextOf(r), "### Result\n" \o Join(added[r], "\n") \o "\n")
            /\ \A i \in DOMAIN WritesOf(r, "serialize") :
                    LET content == WritesOf(r, "serialize")[i].content IN
                    /\ ~Contains(content, "### Result")
                    /\ \A k \in DOMAIN added[r] : ~Contains(content, added[r][k])

C9_Witness ==
    \E r \in live :
        /\ SerializeReturned(r)
        /\ added[r] = <<"Error: boom", "done">>
        /\ errorCalls[r] = 1
        /\ Len(WritesOfLastCall(r)) = 1

(***************************************************************************)
(* C10.  With outputToFiles set, a serialize() that routed the snapshot    *)
(* to a file leaves both the "Ran Playwright code" block and the "Open     *)
(* tabs" listing out of the text.                                          *)
(***************************************************************************)
C10_SummarySuppressed ==
    \A r \in live :
        (config.outputToFiles /\ SerializeReturned(r) /\ Len(WritesOfLastCall(r)) >= 1) =>
            /\ ~Contains(TextOf(r), "### Ran Playwright code")
            /\ ~Contains(TextOf(r), "### Open tabs")

(***************************************************************************)
(* C11.  The "Open tabs" section is in the serialized text exactly when    *)
(* setIncludeSnapshot or setIncludeTabs was called and it is not the case  *)
(* that exactly one tab is open and setIncludeTabs was not called.  When   *)
(* present it lists every open tab, in registry order, one line each, or   *)
(* says that no tab is open.                                               *)
(***************************************************************************)
HasTabsSection(text) ==
    StartsWith(text, "### Open tabs\n") \/ Contains(text, "\n### Open tabs\n")

TabLine(i) ==
    "- " \o ToString(i - 1) \o ":" \o (IF i = currentTab THEN " (current)" ELSE "")
        \o " [" \o tabs[i].lastTitle \o "] (" \o tabs[i].url \o ")\n"

C11_TabsSectionIff ==
    \A r \in live :
        SerializeReturned(r) =>
            LET requested == _includeSnapshot[r] \/ _includeTabs[r]
                single == Len(tabs) = 1 /\ ~_includeTabs[r]
            IN  /\ HasTabsSection(TextOf(r)) <=> (requested /\ ~single)
                /\ HasTabsSection(TextOf(r)) =>
                        IF Len(tabs) = 0
                        THEN Contains(TextOf(r), "### Open tabs\nNo open tabs. ")
                        ELSE Contains(TextOf(r),
                                "### Open tabs\n"
                                    \o Join([i \in 1..Len(tabs) |-> TabLine(i)], ""))

C11_Witness ==
    \E r \in live :
        /\ SerializeReturned(r)
        /\ Len(tabs) = 1
        /\ _includeTabs[r]
        /\ calls[r].finish = 1
        /\ HasTabsSection(TextOf(r))

(***************************************************************************)
(* C12.  One serialization reports modal state or page state, never both.  *)
(* What it reports (the text, or the file it wrote when outputToFiles is   *)
(* set) holds the modal-state rendering and nothing of the page report     *)
(* when the attached snapshot has a modal state, and the page report and   *)
(* no modal section when it has none.                                      *)
(***************************************************************************)
HasModalReport(text) == Contains(text, "### Modal state")

HasPageReport(text) ==
    \/ Contains(text, "### Page state")
    \/ Contains(text, "- Page URL:")
    \/ Contains(text, "- Page Title:")
    \/ Contains(text, "- Page Snapshot:")
    \/ Contains(text, "onsole messages")
    \/ Contains(text, "### Downloads")

\* where the report of the last serialize() went: its file, or the text
Reported(r) ==
    IF config.outputToFiles
    THEN (IF Len(WritesOfLastCall(r)) = 0 THEN "" ELSE WritesOfLastCall(r)[1].content)
    ELSE TextOf(r)

C12_ModalXorPage ==
    \A r \in live :
        (SerializeReturned(r) /\ _tabSnapshot[r] # None) =>
            LET snap == _tabSnapshot[r] IN
            /\ config.outputToFiles =>
                    /\ ~HasModalReport(TextOf(r))
                    /\ ~HasPageReport(TextOf(r))
            /\ IF Len(snap.modalStates) >= 1
               THEN /\ HasModalReport(Reported(r))
                    /\ Contains(Reported(r), snap.modalStates[1].description)
                    /\ ~HasPageReport(Reported(r))
                    /\ ~Contains(Reported(r), snap.ariaSnapshot)
               ELSE /\ Contains(Reported(r), "### Page state\n- Page URL: " \o snap.url \o "\n")
                    /\ Contains(Reported(r), snap.ariaSnapshot)
                    /\ ~HasModalReport(Reported(r))

C12_Witness ==
    \E r \in live :
        /\ SerializeReturned(r)
        /\ config.outputToFiles
        /\ _tabSnapshot[r] # None
        /\ Len(_tabSnapshot[r].modalStates) = 1
        /\ Len(_tabSnapshot[r].consoleMessages) = 7
        /\ HasModalReport(Reported(r))

(***************************************************************************)
(* C13.  With outputToFiles unset, the page report of a snapshot with      *)
(* n >= 1 console messages shows exactly the first min(n, 5) of them in    *)
(* order, each cut to its first 100 characters plus "..." when longer and  *)
(* unchanged otherwise, then "... and n - 5 more console messages"         *)
(* exactly when n > 5; with n = 0 there is no console section.             *)
(***************************************************************************)
RECURSIVE ShownLines(_, _)
ShownLines(messages, k) ==
    IF k = 0 THEN ""
    ELSE ShownLines(messages, k - 1) \o Shown(messages[k])

C13_ConsoleTrimming ==
    \A r \in live :
        (SerializeReturned(r) /\ ~config.outputToFiles /\ _tabSnapshot[r] # None
            /\ Len(_tabSnapshot[r].modalStates) = 0) =>
            LET messages == _tabSnapshot[r].consoleMessages
                n == Len(messages)
                more == "- ... and " \o ToString(n - 5) \o " more console messages\n"
            IN  IF n = 0
                THEN ~Contains(TextOf(r), "console messages")
                ELSE /\ Contains(TextOf(r),
                            "### New console messages\n"
                                \o ShownLines(messages, IF n < 5 THEN n ELSE 5)
                                \o (IF n > 5 THEN more ELSE "")
                                \o "\n### ")
                     /\ \A i \in 1..n :
                            LET m == messageToString(messages[i]) IN
                            /\ i > 5 => ~Contains(TextOf(r), m)
                            /\ Len(m) > 100 => ~Contains(TextOf(r), m)
                            /\ (i <= 5 /\ Len(m) <= 100) =>
                                    Contains(TextOf(r), "- " \o m \o "\n")
                     /\ (n > 5) <=> Contains(TextOf(r), " more console messages")

C13_Witness ==
    \E r \in live :
        /\ SerializeReturned(r)
        /\ ~config.outputToFiles
        /\ _tabSnapshot[r] # None
        /\ Len(_tabSnapshot[r].consoleMessages) = 7
        /\ Contains(TextOf(r), "- [LOG] " \o Rep("d", 94) \o "...\n")
        /\ Contains(TextOf(r), "- [LOG] fifth\n- ... and 2 more console messages\n")

(***************************************************************************)
(* C14.  Images are never routed to a file.  The payload serialize()       *)
(* returns is one text block followed by one image block per addImage      *)
(* call, in call order, each with the image's content type and its data    *)
(* in base64, unless imageResponses is "omit": then it is the text block   *)
(* alone.  For either value of outputToFiles no write of the process       *)
(* carries an image, and serialize() writes at most its snapshot file.     *)
(***************************************************************************)
\* the base64 text of the images tools add
Encoded(image) ==
    IF image.contentType = "image/png" THEN "iVBORw==" ELSE "/9g="

C14_ImagesInline ==
    \A r \in live :
        /\ \A i \in DOMAIN writes :
                /\ writes[i].type \in {"console", "network", "snapshot"}
                /\ \A image \in Images : ~Contains(writes[i].content, Encoded(image))
        /\ SerializeReturned(r) =>
                LET content == out[r].content
                    shown == IF config.imageResponses = "omit" THEN 0 ELSE Len(_images[r])
                IN  /\ Len(content) = 1 + shown
                    /\ content[1].type = "text"
                    /\ \A i \in 1..shown :
                            content[i + 1] =
                                [type |-> "image", data |-> Encoded(_images[r][i]),
                                 mimeType |-> _images[r][i].contentType]
                    /\ Len(WritesOfLastCall(r)) <= 1
                    /\ \A i \in DOMAIN WritesOfLastCall(r) :
                            WritesOfLastCall(r)[i].type = "snapshot"

C14_Witness ==
    \E r \in live :
        /\ SerializeReturned(r)
        /\ config.outputToFiles
        /\ config.imageResponses # "omit"
        /\ Len(_images[r]) = 2
        /\ _images[r][1].contentType = "image/jpeg"
        /\ _images[r][2].contentType = "image/png"
        /\ Len(out[r].content) = 3

(***************************************************************************)
(* C15.  renderRequest never fails because of a body step.  For a pair     *)
(* whose response exists and whose response content type is JSON or whose  *)
(* URL contains "graphql", the block ends with exactly one body line: the  *)
(* pretty-printed "Response Body:" when the body is read and parses,       *)
(* "Response Body (raw):" with its first 1000 characters when it is read   *)
(* but does not parse, "Response Body: [Unable to read]" when it cannot    *)
(* be read; any other pair has no response body line.  A request body      *)
(* that is absent or unreadable adds no line, and the handler's inline     *)
(* result is these blocks, one per pair.                                   *)
(***************************************************************************)
EndsWith(s, p) == Len(s) >= Len(p) /\ SubSeq(s, Len(s) - Len(p) + 1, Len(s)) = p

CountOf(s, p) ==
    Cardinality({i \in 1..(Len(s) - Len(p) + 1) : SubSeq(s, i, i + Len(p) - 1) = p})

\* JSON.stringify(JSON.parse(text), null, 2) of the JSON bodies of the model
Pretty(text) ==
    IF text = "{\"errors\":[]}"
    THEN "{\n  \"errors\": []\n}"
    ELSE "{\n  \"data\": {\n    \"id\": 1,\n    \"tags\": [\n      \"a\",\n      \"b\"\n    ]\n  }\n}"

IsJSONText(text) == CharAt(text, 1) = "{"

BodyLineAsClaimed(block, body) ==
    IF body.reads[1] = Returned /\ IsJSONText(body.text)
    THEN EndsWith(block, "\nResponse Body: " \o Pretty(body.text))
    ELSE IF body.reads = <<Returned, Returned>>
    THEN /\ EndsWith(block, "\nResponse Body (raw): "
                    \o (IF Len(body.text) <= 1000 THEN body.text
                        ELSE SubSeq(body.text, 1, 1000)))
         /\ ~Contains(block, "Response Body: ")
    ELSE EndsWith(block, "\nResponse Body: [Unable to read]")

C15_BodyFallbacks ==
    \A r \in live : \A i \in DOMAIN requests :
        LET q == requests[i].request
            s == requests[i].response
            rendered == renderRequest(requests[i])
            block == rendered.text
        IN  /\ rendered.outcome = "returned"
            /\ last[r].op = "handle" =>
                    /\ last[r].outcome = "returned"
                    /\ Len(_result[r]) = Len(requests)
                    /\ _result[r][i] = block
            /\ StartsWith(block, "[")
            /\ IF (Contains(q.contentType, "application/json") \/ Contains(q.url, "graphql"))
                    /\ q.postData.outcome = Returned /\ q.postData.text # ""
               THEN /\ CountOf(block, "Request Body") = 1
                    /\ Contains(block, "\nRequest Body: " \o q.postData.text)
               ELSE ~Contains(block, "Request Body")
            /\ IF s # None
                    /\ (Contains(s.contentType, "application/json") \/ Contains(q.url, "graphql"))
               THEN /\ CountOf(block, "Response Body") = 1
                    /\ BodyLineAsClaimed(block, s.body)
               ELSE ~Contains(block, "Response Body")

C15_Witness ==
    \E r \in live :
        /\ last[r].op = "handle"
        /\ last[r].outcome = "returned"
        /\ Len(requests) = 1
        /\ requests[1].request.postData.outcome = Threw
        /\ requests[1].response # None
        /\ requests[1].response.contentType = "text/html"
        /\ requests[1].response.body.reads = <<Returned, Returned>>
        /\ Len(requests[1].response.body.text) = 1001
        /\ EndsWith(_result[r][1], "\n=> [200] OK\nResponse Body (raw): " \o Rep("r", 1000))

(***************************************************************************)
(* C19.  With outputToFiles set and at least one request recorded, the     *)
(* browser_network_requests handler writes all the rendered requests to    *)
(* one file and leaves in the result the pointer and the usage hint only,  *)
(* however short the rendered requests are.                                *)
(***************************************************************************)
C19_NetworkFileOnly ==
    \A r \in live :
        (config.outputToFiles /\ Len(requests) >= 1 /\ DetailReturned(r)) =>
            LET mine == WritesOfLastCall(r) IN
            /\ Len(mine) = 1
            /\ mine[1].type = "network"
            /\ mine[1].content = Join(RenderedBeforeThrow(requests), "\n\n")
            /\ _result[r] = << "network: " \o basename(mine[1].path), UsageHint >>
            /\ \A i \in DOMAIN requests :
                    ~Contains(result(r), requests[i].request.url)

(***************************************************************************)
(* C16.  The modal or page report is rendered from the snapshot finish()   *)
(* captured and from nothing else.  Whatever dialogs opened or closed on   *)
(* the tab after the capture, the report serialize() returns is the modal  *)
(* report of the dialogs stored in the snapshot, or the page report when   *)
(* it stores none; and no step of serialize() captures a snapshot,         *)
(* replaces the attached one or touches the tabs.                          *)
(***************************************************************************)
ReportsCapturedState(r) ==
    (SerializeReturned(r) /\ _tabSnapshot[r] # None) =>
        LET captured == _tabSnapshot[r].modalStates IN
        IF Len(captured) # 0
        THEN Contains(Reported(r), Join(renderModalStates(captured), "\n"))
        ELSE /\ ~HasModalReport(Reported(r))
             /\ Contains(Reported(r), "- Page Title: " \o _tabSnapshot[r].title \o "\n")

\* a step of the Response's serialize(): its call, or a resumption of it
SerializeStep(r) ==
    \/ calls'[r].serialize # calls[r].serialize
    \/ frame[r] # None /\ frame[r].op = "serialize" /\ pc'[r] # pc[r]

C16_RenderedFromCapture ==
    /\ [](\A r \in live : ReportsCapturedState(r))
    /\ [][\A r \in live :
            SerializeStep(r) =>
                /\ captures' = captures
                /\ _tabSnapshot' = _tabSnapshot
                /\ tabs' = tabs]_vars

C16_Witness ==
    \E r \in live :
        /\ SerializeReturned(r)
        /\ _tabSnapshot[r] # None
        /\ currentTab # 0
        /\ Len(_tabSnapshot[r].modalStates) = 1
        /\ Len(tabs[currentTab].modalStates) = 0
        /\ HasModalReport(Reported(r))

(***************************************************************************)
(* C17.  A finish() that completes has called updateTitle once on every    *)
(* tab of the registry, in registry order, after the capture if there was  *)
(* one, whatever the flags and whether or not a current tab exists; and    *)
(* when the capture and every updateTitle return, finish() completes.      *)
(***************************************************************************)
FinishReturned(r) ==
    r \in live /\ pc[r] = "idle"
        /\ last[r].op = "finish" /\ last[r].outcome = "returned"

InFinish(r) == r \in live /\ pc[r] \in {"captureSnapshot", "updateTitle"}

TitlesInOrder(r) ==
    /\ FinishReturned(r) =>
            /\ titleUpdates[r] = [i \in 1..Len(tabs) |-> i]
            /\ \A i \in DOMAIN tabs : tabs[i].lastTitle = tabs[i].title
            /\ (_includeSnapshot[r] /\ currentTab # 0) <=> (_tabSnapshot[r] # None)
    /\ pc[r] = "captureSnapshot" => titleUpdates[r] = << >>
    /\ pc[r] = "updateTitle" =>
            /\ titleUpdates[r] = [i \in 1..(frame[r].i - 1) |-> i]
            /\ ShouldCapture(r) => _tabSnapshot[r] # None

C17_TitlesRefreshed ==
    /\ [](\A r \in live : TitlesInOrder(r))
    /\ \A r \in Responses : InFinish(r) ~> FinishReturned(r)

C17_Witness ==
    \E r \in live :
        /\ FinishReturned(r)
        /\ Len(tabs) = 2
        /\ currentTab = 2
        /\ ~_includeSnapshot[r]
        /\ titleUpdates[r] = <<1, 2>>

(***************************************************************************)
(* C18.  serialize() changes nothing of the Response but through file      *)
(* writing: its steps leave the result lines, code lines, images, the two  *)
(* flags, isError and the attached snapshot as they were, and only add to  *)
(* the written paths and to the file system.  So a second serialize() of   *)
(* a Response returns the blocks of the first, up to the name of the file  *)
(* it writes.                                                              *)
(***************************************************************************)
\* the text up to the name of the file its last pointer names
UpToFileName(text, files) ==
    IF Len(files) = 0 THEN text
    ELSE LET pointed == basename(files[Len(files)]) \o "\n" \o UsageHint \o "\n" IN
         IF EndsWith(text, pointed)
         THEN SubSeq(text, 1, Len(text) - Len(pointed))
         ELSE text

SerializeReturns(r) ==
    SerializeStep(r) /\ pc'[r] = "idle"
        /\ last'[r].op = "serialize" /\ last'[r].outcome = "returned"

C18_SerializeFrame ==
    [][\A r \in live :
        /\ SerializeStep(r) =>
                /\ UNCHANGED << _result, _code, _images, _includeSnapshot,
                                _includeTabs, _isError, _tabSnapshot >>
                /\ \A p \in DOMAIN fs : p \in DOMAIN fs'
                /\ Len(_outputFiles'[r]) >= Len(_outputFiles[r])
                /\ SubSeq(_outputFiles'[r], 1, Len(_outputFiles[r])) = _outputFiles[r]
        /\ (SerializeReturns(r) /\ out[r] # None) =>
                /\ out'[r].isError = out[r].isError
                /\ Tail(out'[r].content) = Tail(out[r].content)
                /\ UpToFileName(out'[r].content[1].text, _outputFiles'[r])
                        = UpToFileName(out[r].content[1].text, _outputFiles[r])
                /\ ~config.outputToFiles => out'[r] = out[r]]_vars

C18_Witness ==
    \E r \in live :
        /\ SerializeReturned(r)
        /\ calls[r].serialize = 2
        /\ Len(_result[r]) >= 1
        /\ Len(WritesOf(r, "serialize")) = 2
        /\ WritesOf(r, "serialize")[1].path # WritesOf(r, "serialize")[2].path

(***************************************************************************)
(* C20.  serialize() emits a snapshot section (the modal or page report,   *)
(* or the pointer to its file) exactly when a snapshot is attached to the  *)
(* Response, which takes setIncludeSnapshot and a finish() that found a    *)
(* current tab: setIncludeTabs alone, or serialize() before finish(),      *)
(* yields none.  With a snapshot attached serialize() writes exactly one   *)
(* file when outputToFiles is set and none when it is not; with none       *)
(* attached it writes no file.                                             *)
(***************************************************************************)
HasSnapshotSection(r) ==
    IF config.outputToFiles
    THEN HasSnapshotPointer(TextOf(r))
    ELSE HasModalReport(TextOf(r)) \/ HasPageReport(TextOf(r))

C20_SnapshotSectionIffAttached ==
    \A r \in live :
        /\ _tabSnapshot[r] # None =>
                /\ _includeSnapshot[r]
                /\ calls[r].finish >= 1
                /\ captures[r] >= 1
        /\ SerializeReturned(r) =>
                /\ HasSnapshotSection(r) <=> (_tabSnapshot[r] # None)
                /\ Len(WritesOfLastCall(r)) =
                        (IF _tabSnapshot[r] # None /\ config.outputToFiles THEN 1 ELSE 0)
                /\ (~_includeSnapshot[r] \/ calls[r].finish = 0) => ~HasSnapshotSection(r)

C20_Witness ==
    \E r \in live :
        /\ SerializeReturned(r)
        /\ config.outputToFiles
        /\ _tabSnapshot[r] # None
        /\ ~_includeTabs[r]
        /\ Len(WritesOfLastCall(r)) = 1
        /\ HasSnapshotSection(r)

=============================================================================
